---- MODULE Spec2Model ----
(***************************************************************************)
(* Liquid-Flow analytics core: SlippageCalculator, ArbitrageDetector,       *)
(* RouteOptimizer and LiquidityScorer.                                     *)
(*                                                                         *)
(* The functions are pure.  Each specification draws the inputs of one     *)
(* component in its initial states and its actions apply the functions,    *)
(* leaving the inputs in place and the outcome in the result variables.    *)
(*                                                                         *)
(* Numbers.  Prices and quantities are integers; a quotient the code       *)
(* computes is kept as an exact fraction [num, den] in lowest terms.  A    *)
(* denominator 0 with a positive numerator is JavaScript's +Infinity       *)
(* (x / 0 for x > 0).  Summary prices of the arbitrage detector are in     *)
(* hundredths (1520 stands for 15.20).                                     *)
(*                                                                         *)
(* Errors.  The code throws Error objects told apart by their message;     *)
(* the model names them by kind: "Order size must be positive" is          *)
(* InvalidOrderSize, "Orderbook is empty" is EmptyLadder and               *)
(* "Insufficient liquidity. Can only fill F of R" is InsufficientLiquidity *)
(* carrying F and R.                                                       *)
(***************************************************************************)
EXTENDS Integers, Sequences, FiniteSets

VARIABLES
    pc,            \* "start" before the call, "done" after it
    op,            \* the function that was called ("none" before the call)
    orderbook,     \* caller's ladder: sequence of [price, quantity]
    side,          \* "buy" or "sell"
    orderSize,     \* argument of calculateSlippage
    steps,         \* argument of calculateSlippageLadder
    result,        \* outcome of calculateSlippage
    fills,         \* levels visited by the fill loop, with the quantity taken
    ladderResult,  \* outcome of calculateSlippageLadder
    markets,       \* argument of findOpportunities
    minSpreadPercent,
    opportunities, \* outcome of findOpportunities
    routeMarkets,  \* argument of findOptimalRoute: [marketId, orderbook]
    totalAmount,   \* argument of findOptimalRoute
    route,         \* outcome of findOptimalRoute
    bids,          \* arguments of calculateScore
    asks,
    score,         \* outcome of calculateScore
    spotMarkets,   \* upstream: the spot markets, each with its order book
    requestToken,  \* argument of findBestRoute
    fetchedMarkets, \* the markets whose order book the call fetches
    fetchState,    \* per fetched market: "inflight", "resolved", "rejected"
    completionOrder, \* indices of fetchedMarkets in the order the fetches settled
    marketData,    \* per fetched market: what its callback returned
    response       \* outcome of the service call

vars == <<pc, op, orderbook, side, orderSize, steps, result, fills,
          ladderResult, markets, minSpreadPercent, opportunities,
          routeMarkets, totalAmount, route, bids, asks, score,
          spotMarkets, requestToken, fetchedMarkets, fetchState,
          completionOrder, marketData, response>>

slipVars == <<orderbook, side, orderSize, steps, result, fills, ladderResult>>
arbVars == <<markets, minSpreadPercent, opportunities>>
routeVars == <<routeMarkets, totalAmount, route>>
scoreVars == <<bids, asks, score>>
serviceVars == <<spotMarkets, requestToken, fetchedMarkets, fetchState,
                 completionOrder, marketData, response>>

-----------------------------------------------------------------------------
(* Bounds of the model *)

MaxLevels == 3
MaxSteps == 2
MaxMarkets == 4

-----------------------------------------------------------------------------
(* Exact arithmetic *)

Abs(x) == IF x < 0 THEN -x ELSE x

Min(a, b) == IF a <= b THEN a ELSE b

RECURSIVE GCD(_, _)
GCD(a, b) == IF b = 0 THEN a ELSE GCD(b, a % b)

\* n / d for d >= 0, in lowest terms
Rat(n, d) ==
    LET g == GCD(Abs(n), d)
    IN  IF g = 0 THEN [num |-> 0, den |-> 0]
        ELSE [num |-> n \div g, den |-> d \div g]

RatOfInt(n) == [num |-> n, den |-> 1]

RatLess(a, b) == a.num * b.den < b.num * a.den

RatLeq(a, b) == a.num * b.den <= b.num * a.den

RatAdd(a, b) == Rat(a.num * b.den + b.num * a.den, a.den * b.den)

RatSub(a, b) == Rat(a.num * b.den - b.num * a.den, a.den * b.den)

RatMulInt(a, n) == Rat(a.num * n, a.den)

\* a / n; 0 / 0 is NaN, kept as [num |-> 0, den |-> 0]
RatDivInt(a, n) ==
    IF n < 0 THEN Rat(-a.num, a.den * (-n)) ELSE Rat(a.num, a.den * n)

RatMax(a, b) == IF RatLess(a, b) THEN b ELSE a

None == [kind |-> "none"]

\* no service call is in progress
ServiceIdle ==
    /\ spotMarkets = <<>>
    /\ requestToken = ""
    /\ fetchedMarkets = <<>>
    /\ fetchState = <<>>
    /\ completionOrder = <<>>
    /\ marketData = <<>>
    /\ response = None

-----------------------------------------------------------------------------
(* SlippageCalculator *)

Sides == {"buy", "sell"}

\* mutant: the comparator forgets the side and always sorts ascending
ComparePriceAscending(a, b, s) == a.price - b.price

\* comparator of the sort: negative when a goes before b
ComparePrice(a, b, s) ==
    IF s = "buy" THEN a.price - b.price ELSE b.price - a.price

\* Array.prototype.sort is stable: insert after every element that does not
\* compare greater
RECURSIVE InsertLevel(_, _, _)
InsertLevel(sorted, level, s) ==
    IF sorted = <<>> THEN <<level>>
    ELSE IF ComparePrice(level, Head(sorted), s) < 0
         THEN <<level>> \o sorted
         ELSE <<Head(sorted)>> \o InsertLevel(Tail(sorted), level, s)

\* mutant: the ladder is walked as it arrived
SortBookAsGiven(book, s) == book

RECURSIVE SortBook(_, _)
SortBook(book, s) ==
    IF book = <<>> THEN <<>>
    ELSE InsertLevel(SortBook(SubSeq(book, 1, Len(book) - 1), s),
                     book[Len(book)], s)

BestPrice(sortedBook) == sortedBook[1].price

QuantityToTake(remainingSize, level) == Min(remainingSize, level.quantity)

\* the fill loop from level i on; acc holds the loop's locals
RECURSIVE Walk(_, _, _)
Walk(sortedBook, i, acc) ==
    IF i > Len(sortedBook) \/ acc.remainingSize <= 0 THEN acc
    ELSE LET level == sortedBook[i]
             take == QuantityToTake(acc.remainingSize, level)
         IN  Walk(sortedBook, i + 1,
                  [remainingSize |-> acc.remainingSize - take,
                   totalCost |-> acc.totalCost + take * level.price,
                   totalQuantity |-> acc.totalQuantity + take,
                   fills |-> Append(acc.fills,
                                    [price |-> level.price,
                                     quantity |-> level.quantity,
                                     take |-> take])])

\* mutant: only the best level is walked
FillOrderBestLevelOnly(book, size, s) ==
    Walk(SubSeq(SortBook(book, s), 1, 1), 1,
         [remainingSize |-> size, totalCost |-> 0, totalQuantity |-> 0,
          fills |-> <<>>])

FillOrder(book, size, s) ==
    Walk(SortBook(book, s), 1,
         [remainingSize |-> size, totalCost |-> 0, totalQuantity |-> 0,
          fills |-> <<>>])

\* mutant: a size of 0 passes the size check
SizeInvalidNegativeOnly(size) == size < 0

SizeInvalid(size) == size <= 0

\* mutant: an order filled exactly is reported short
LiquidityShortOrExact(remainingSize) == remainingSize >= 0

LiquidityShort(remainingSize) == remainingSize > 0

\* mutant: the relative deviation is not scaled to percent
SlippageFraction(totalCost, totalQuantity, bestPrice) ==
    Rat(Abs(totalCost - bestPrice * totalQuantity), bestPrice * totalQuantity)

\* mutant: the deviation keeps its sign
SlippagePercentSigned(totalCost, totalQuantity, bestPrice) ==
    Rat((totalCost - bestPrice * totalQuantity) * 100,
        bestPrice * totalQuantity)

\* averagePrice = totalCost / totalQuantity;
\* Math.abs((averagePrice - bestPrice) / bestPrice * 100)
SlippagePercentOf(totalCost, totalQuantity, bestPrice) ==
    Rat(Abs(totalCost - bestPrice * totalQuantity) * 100,
        bestPrice * totalQuantity)

\* mutant: the message reports the amount still missing as the amount filled
InsufficientLiquidityMissing(w, size) ==
    [kind |-> "InsufficientLiquidity",
     filled |-> w.remainingSize, requested |-> size]

\* `Insufficient liquidity. Can only fill ${totalQuantity} of ${orderSize}`
InsufficientLiquidityError(w, size) ==
    [kind |-> "InsufficientLiquidity",
     filled |-> w.totalQuantity, requested |-> size]

calculateSlippage(book, size, s) ==
    IF SizeInvalid(size) THEN [kind |-> "InvalidOrderSize"]
    ELSE IF Len(book) = 0 THEN [kind |-> "EmptyLadder"]
    ELSE
        LET bestPrice == BestPrice(SortBook(book, s))
            w == FillOrder(book, size, s)
        IN  IF LiquidityShort(w.remainingSize)
            THEN InsufficientLiquidityError(w, size)
            ELSE
                LET slip == SlippagePercentOf(w.totalCost, w.totalQuantity,
                                              bestPrice)
                IN  [kind |-> "ok",
                     expectedPrice |-> bestPrice,
                     actualPrice |-> Rat(w.totalCost, w.totalQuantity),
                     slippagePercent |-> slip,
                     priceImpact |-> slip,
                     totalCost |-> w.totalCost]

\* the levels the loop visited, when the call reaches the loop
FillTrace(book, size, s) ==
    IF SizeInvalid(size) \/ Len(book) = 0 THEN <<>>
    ELSE FillOrder(book, size, s).fills

Failed(r) == r.kind # "ok"

\* mutant: the catch clause handles only the two liquidity errors
CaughtLiquidityOnly(r) == r.kind \in {"InsufficientLiquidity", "EmptyLadder"}

\* mutant: the call of calculateSlippage is not wrapped in try/catch
CaughtNothing(r) == FALSE

\* the catch clause of calculateSlippageLadder: which errors it handles
Caught(r) == Failed(r)

\* steps.map(size => try {...} catch {...}); an error the catch clause does
\* not handle leaves the map and the call raises it
RECURSIVE MapSteps(_, _, _, _)
MapSteps(book, s, sizes, i) ==
    IF i > Len(sizes) THEN [kind |-> "returned", slots |-> <<>>]
    ELSE LET r == calculateSlippage(book, sizes[i], s)
             rest == MapSteps(book, s, sizes, i + 1)
         IN  IF Failed(r) /\ ~Caught(r) THEN [kind |-> "raised", error |-> r]
             ELSE IF rest.kind = "raised" THEN rest
             ELSE [kind |-> "returned",
                   slots |-> <<[orderSize |-> sizes[i],
                                slippage |-> IF Failed(r) THEN None ELSE r]>>
                             \o rest.slots]

calculateSlippageLadder(book, s, sizes) == MapSteps(book, s, sizes, 1)

\* mutant: the ladder is sorted where it stands, without the spread copy
CallerLadderSortedInPlace(book, s) == SortBook(book, s)

\* the caller's array once `[...orderbook].sort(...)` has run: the spread
\* builds a fresh array and sort reorders that one
CallerLadderAfterSort(book, s) == book

\* the caller's array after calculateSlippage; both checks raise before the
\* sort is reached
LadderAfterCall(book, size, s) ==
    IF SizeInvalid(size) \/ Len(book) = 0 THEN book
    ELSE CallerLadderAfterSort(book, s)

\* the caller's array after calculateSlippageLadder has called
\* calculateSlippage on it for the sizes from i on
RECURSIVE LadderAfterSteps(_, _, _, _)
LadderAfterSteps(book, s, sizes, i) ==
    IF i > Len(sizes) THEN book
    ELSE LadderAfterSteps(LadderAfterCall(book, sizes[i], s), s, sizes, i + 1)

-----------------------------------------------------------------------------
(* Inputs of the slippage specification *)

Prices == {100, 101, 102}
Quantities == {10, 50}
Levels == [price : Prices, quantity : Quantities]

SeqsUpTo(S, n) == UNION {[1..k -> S] : k \in 0..n}

ScenarioA == <<[price |-> 100, quantity |-> 50],
               [price |-> 101, quantity |-> 50],
               [price |-> 102, quantity |-> 100]>>

ScenarioSell == <<[price |-> 100, quantity |-> 50],
                  [price |-> 99, quantity |-> 50],
                  [price |-> 98, quantity |-> 100]>>

ScenarioD == <<[price |-> 100, quantity |-> 10],
               [price |-> 101, quantity |-> 10]>>

Ladders == SeqsUpTo(Levels, MaxLevels) \cup {ScenarioA, ScenarioSell}

OrderSizes == {-5, 0, 5, 10, 15, 25, 60, 100, 110, 150}

StepSizes == {0, 5, 15, 25}

StepLists == SeqsUpTo(StepSizes, MaxSteps) \cup {<<5, 15, 25>>}

NoOpportunities == <<>>

InitSlippage ==
    /\ pc = "start"
    /\ op = "none"
    /\ orderbook \in Ladders
    /\ side \in Sides
    /\ orderSize = 0
    /\ steps = <<>>
    /\ result = None
    /\ fills = <<>>
    /\ ladderResult = None
    /\ markets = <<>>
    /\ minSpreadPercent = RatOfInt(0)
    /\ opportunities = NoOpportunities
    /\ routeMarkets = <<>>
    /\ totalAmount = 0
    /\ route = None
    /\ bids = <<>>
    /\ asks = <<>>
    /\ score = None
    /\ ServiceIdle

CalculateSlippage ==
    /\ pc = "start"
    /\ \E size \in OrderSizes :
        /\ orderSize' = size
        /\ result' = calculateSlippage(orderbook, size, side)
        /\ fills' = FillTrace(orderbook, size, side)
        /\ orderbook' = LadderAfterCall(orderbook, size, side)
    /\ pc' = "done"
    /\ op' = "calculateSlippage"
    /\ UNCHANGED <<side, steps, ladderResult>>
    /\ UNCHANGED arbVars
    /\ UNCHANGED <<routeVars, scoreVars, serviceVars>>

CalculateSlippageLadder ==
    /\ pc = "start"
    /\ \E sizes \in StepLists :
        /\ steps' = sizes
        /\ ladderResult' = calculateSlippageLadder(orderbook, side, sizes)
        /\ orderbook' = LadderAfterSteps(orderbook, side, sizes, 1)
    /\ pc' = "done"
    /\ op' = "calculateSlippageLadder"
    /\ UNCHANGED <<side, orderSize, result, fills>>
    /\ UNCHANGED arbVars
    /\ UNCHANGED <<routeVars, scoreVars, serviceVars>>

NextSlippage == CalculateSlippage \/ CalculateSlippageLadder

SpecSlippage == InitSlippage /\ [][NextSlippage]_vars

-----------------------------------------------------------------------------
(* ArbitrageDetector *)

FeeNum == 2
FeeDen == 1000

SpreadPercentOf(spread, buyPrice) == Rat(spread * 100, buyPrice)

\* mutant: the minimum-spread check is missing
BelowMinSpreadNever(spreadPercent, minSpread) == FALSE

BelowMinSpread(spreadPercent, minSpread) == RatLess(spreadPercent, minSpread)

\* mutant: the fees are left out of the profit
EstimatedProfitGross(spread, buyPrice, sellPrice, maxSize) ==
    Rat(spread * maxSize, 1)

\* (spread - (buyPrice + sellPrice) * feePercent) * maxSize
EstimatedProfitOf(spread, buyPrice, sellPrice, maxSize) ==
    Rat((FeeDen * spread - FeeNum * (buyPrice + sellPrice)) * maxSize, FeeDen)

\* mutant: the spread is taken in absolute value and the price order is not
\* checked
checkArbitrageAbsoluteSpread(buyMarket, sellMarket, token, minSpread) ==
    LET buyPrice == buyMarket.bestAsk
        sellPrice == sellMarket.bestBid
        spread == Abs(sellPrice - buyPrice)
        spreadPercent == SpreadPercentOf(spread, buyPrice)
        maxSize == Min(buyMarket.askQuantity, sellMarket.bidQuantity)
        estimatedProfit == EstimatedProfitOf(spread, buyPrice, sellPrice, maxSize)
    IN  IF BelowMinSpread(spreadPercent, minSpread) THEN None
        ELSE IF estimatedProfit.num <= 0 THEN None
        ELSE [kind |-> "opportunity",
              buyMarket |-> buyMarket.marketId,
              sellMarket |-> sellMarket.marketId,
              buyPrice |-> buyPrice,
              sellPrice |-> sellPrice,
              spread |-> spread,
              spreadPercent |-> spreadPercent,
              maxProfitableSize |-> maxSize,
              estimatedProfit |-> estimatedProfit,
              token |-> token]

checkArbitrage(buyMarket, sellMarket, token, minSpread) ==
    LET buyPrice == buyMarket.bestAsk
        sellPrice == sellMarket.bestBid
        spread == sellPrice - buyPrice
        spreadPercent == SpreadPercentOf(spread, buyPrice)
        maxSize == Min(buyMarket.askQuantity, sellMarket.bidQuantity)
        estimatedProfit == EstimatedProfitOf(spread, buyPrice, sellPrice, maxSize)
    IN  IF buyPrice >= sellPrice THEN None
        ELSE IF BelowMinSpread(spreadPercent, minSpread) THEN None
        ELSE IF estimatedProfit.num <= 0 THEN None
        ELSE [kind |-> "opportunity",
              buyMarket |-> buyMarket.marketId,
              sellMarket |-> sellMarket.marketId,
              buyPrice |-> buyPrice,
              sellPrice |-> sellPrice,
              spread |-> spread,
              spreadPercent |-> spreadPercent,
              maxProfitableSize |-> maxSize,
              estimatedProfit |-> estimatedProfit,
              token |-> token]

\* keys of the groups object in the order Object.entries lists them: order
\* of first appearance (token symbols are not integer-like keys)
RECURSIVE TokenKeys(_, _)
TokenKeys(ms, seen) ==
    IF ms = <<>> THEN <<>>
    ELSE IF Head(ms).token \in seen THEN TokenKeys(Tail(ms), seen)
    ELSE <<Head(ms).token>> \o TokenKeys(Tail(ms), seen \cup {Head(ms).token})

\* mutant: every market lands in every group
GroupOfAny(ms, token) == ms

\* groups[token]: the markets with that token, in input order
GroupOf(ms, token) == SelectSeq(ms, LAMBDA m : m.token = token)

Pushed(o) == IF o = None THEN <<>> ELSE <<o>>

\* mutant: only the direction buy on i, sell on j is checked
RECURSIVE ScanPairsForwardOnly(_, _, _, _, _)
ScanPairsForwardOnly(tokenMarkets, token, minSpread, i, j) ==
    IF i > Len(tokenMarkets) THEN <<>>
    ELSE IF j > Len(tokenMarkets)
         THEN ScanPairsForwardOnly(tokenMarkets, token, minSpread, i + 1, i + 2)
    ELSE Pushed(checkArbitrage(tokenMarkets[i], tokenMarkets[j], token, minSpread))
         \o ScanPairsForwardOnly(tokenMarkets, token, minSpread, i, j + 1)

\* the two nested loops over one group, from (i, j) on
RECURSIVE ScanPairs(_, _, _, _, _)
ScanPairs(tokenMarkets, token, minSpread, i, j) ==
    IF i > Len(tokenMarkets) THEN <<>>
    ELSE IF j > Len(tokenMarkets)
         THEN ScanPairs(tokenMarkets, token, minSpread, i + 1, i + 2)
    ELSE Pushed(checkArbitrage(tokenMarkets[i], tokenMarkets[j], token, minSpread))
         \o Pushed(checkArbitrage(tokenMarkets[j], tokenMarkets[i], token, minSpread))
         \o ScanPairs(tokenMarkets, token, minSpread, i, j + 1)

RECURSIVE ScanGroups(_, _, _, _)
ScanGroups(ms, keys, minSpread, k) ==
    IF k > Len(keys) THEN <<>>
    ELSE ScanPairs(GroupOf(ms, keys[k]), keys[k], minSpread, 1, 2)
         \o ScanGroups(ms, keys, minSpread, k + 1)

\* mutant: the comparator is a.estimatedProfit - b.estimatedProfit
CompareProfitAscending(a, b) ==
    a.estimatedProfit.num * b.estimatedProfit.den
        - b.estimatedProfit.num * a.estimatedProfit.den

\* b.estimatedProfit - a.estimatedProfit (its sign; denominators are positive)
CompareProfit(a, b) ==
    b.estimatedProfit.num * a.estimatedProfit.den
        - a.estimatedProfit.num * b.estimatedProfit.den

RECURSIVE InsertOpportunity(_, _)
InsertOpportunity(sorted, o) ==
    IF sorted = <<>> THEN <<o>>
    ELSE IF CompareProfit(o, Head(sorted)) < 0
         THEN <<o>> \o sorted
         ELSE <<Head(sorted)>> \o InsertOpportunity(Tail(sorted), o)

RECURSIVE SortByProfit(_)
SortByProfit(os) ==
    IF os = <<>> THEN <<>>
    ELSE InsertOpportunity(SortByProfit(SubSeq(os, 1, Len(os) - 1)), os[Len(os)])

findOpportunities(ms, minSpread) ==
    SortByProfit(ScanGroups(ms, TokenKeys(ms, {}), minSpread, 1))

-----------------------------------------------------------------------------
(* Inputs of the arbitrage specification *)

Quote(t, bid, ask, bidQ, askQ) ==
    [token |-> t, bestBid |-> bid, bestAsk |-> ask,
     bidQuantity |-> bidQ, askQuantity |-> askQ]

\* market summaries, prices in hundredths; the first three are the
\* unit tests' markets
Summaries ==
    {Quote("INJ", 1520, 1525, 100, 100),
     Quote("INJ", 1535, 1540, 100, 100),
     Quote("INJ", 1540, 1545, 100, 100),
     Quote("INJ", 1526, 1527, 50, 200),
     Quote("INJ", 1545, 1520, 30, 60),
     Quote("INJ", 1530, 0, 20, 10),
     Quote("inj", 1520, 1525, 100, 100),
     Quote("inj", 1535, 1540, 70, 100)}

MarketIds == <<"market1", "market2", "market3", "market4", "market5", "market6">>

WithId(q, i) ==
    [marketId |-> MarketIds[i], token |-> q.token,
     bestBid |-> q.bestBid, bestAsk |-> q.bestAsk,
     bidQuantity |-> q.bidQuantity, askQuantity |-> q.askQuantity]

MarketLists ==
    {[i \in 1..Len(qs) |-> WithId(qs[i], i)] : qs \in SeqsUpTo(Summaries, MaxMarkets)}

MinSpreads == {RatOfInt(0), [num |-> 1, den |-> 2], RatOfInt(1)}

InitArbitrage ==
    /\ pc = "start"
    /\ op = "none"
    /\ orderbook = <<>>
    /\ side = "buy"
    /\ orderSize = 0
    /\ steps = <<>>
    /\ result = None
    /\ fills = <<>>
    /\ ladderResult = None
    /\ markets \in MarketLists
    /\ minSpreadPercent \in MinSpreads
    /\ opportunities = NoOpportunities
    /\ routeMarkets = <<>>
    /\ totalAmount = 0
    /\ route = None
    /\ bids = <<>>
    /\ asks = <<>>
    /\ score = None
    /\ ServiceIdle

FindOpportunities ==
    /\ pc = "start"
    /\ opportunities' = findOpportunities(markets, minSpreadPercent)
    /\ pc' = "done"
    /\ op' = "findOpportunities"
    /\ UNCHANGED <<markets, minSpreadPercent>>
    /\ UNCHANGED slipVars
    /\ UNCHANGED <<routeVars, scoreVars, serviceVars>>

NextArbitrage == FindOpportunities

SpecArbitrage == InitArbitrage /\ [][NextArbitrage]_vars

-----------------------------------------------------------------------------
(* RouteOptimizer *)

\* market.orderbook.reduce((sum, level) => sum + level.quantity, 0)
RECURSIVE MaxLiquidity(_)
MaxLiquidity(book) ==
    IF book = <<>> THEN 0
    ELSE Head(book).quantity + MaxLiquidity(Tail(book))

\* market.orderbook[0]?.price || 0
BasePrice(book) == IF Len(book) = 0 THEN 0 ELSE book[1].price

MarketAnalysis(ms) ==
    [i \in 1..Len(ms) |->
        [marketId |-> ms[i].marketId,
         orderbook |-> ms[i].orderbook,
         maxLiquidity |-> MaxLiquidity(ms[i].orderbook),
         basePrice |-> BasePrice(ms[i].orderbook)]]

\* mutant: the comparator's directions are swapped
CompareBasePriceSwapped(a, b, s) ==
    IF s = "buy" THEN b.basePrice - a.basePrice ELSE a.basePrice - b.basePrice

CompareBasePrice(a, b, s) ==
    IF s = "buy" THEN a.basePrice - b.basePrice ELSE b.basePrice - a.basePrice

RECURSIVE InsertMarket(_, _, _)
InsertMarket(sorted, m, s) ==
    IF sorted = <<>> THEN <<m>>
    ELSE IF CompareBasePrice(m, Head(sorted), s) < 0
         THEN <<m>> \o sorted
         ELSE <<Head(sorted)>> \o InsertMarket(Tail(sorted), m, s)

\* marketAnalysis.sort(...), stable
RECURSIVE SortMarkets(_, _)
SortMarkets(ms, s) ==
    IF ms = <<>> THEN <<>>
    ELSE InsertMarket(SortMarkets(SubSeq(ms, 1, Len(ms) - 1), s), ms[Len(ms)], s)

\* mutant: a market is asked for all it holds
AmountToFillWhole(remainingAmount, maxLiquidity) == maxLiquidity

AmountToFill(remainingAmount, maxLiquidity) == Min(remainingAmount, maxLiquidity)

\* mutant: the catch clause records the skipped market as an allocation
RECURSIVE AllocateRecordingSkipped(_, _, _, _)
AllocateRecordingSkipped(sortedMarkets, i, s, acc) ==
    IF i > Len(sortedMarkets) \/ acc.remainingAmount <= 0 THEN acc
    ELSE LET market == sortedMarkets[i]
             amountToFill == AmountToFill(acc.remainingAmount, market.maxLiquidity)
             r == calculateSlippage(market.orderbook, amountToFill, s)
         IN  AllocateRecordingSkipped(sortedMarkets, i + 1, s,
                 [remainingAmount |->
                      IF Failed(r) THEN acc.remainingAmount
                      ELSE acc.remainingAmount - amountToFill,
                  allocations |->
                      Append(acc.allocations,
                             [marketId |-> market.marketId,
                              amount |-> amountToFill,
                              price |-> IF Failed(r) THEN RatOfInt(0)
                                        ELSE r.actualPrice,
                              slippage |-> IF Failed(r) THEN RatOfInt(0)
                                           ELSE r.slippagePercent])])

\* the allocation loop from market i on; its catch clause handles every
\* error of calculateSlippage by going on to the next market
RECURSIVE Allocate(_, _, _, _)
Allocate(sortedMarkets, i, s, acc) ==
    IF i > Len(sortedMarkets) \/ acc.remainingAmount <= 0 THEN acc
    ELSE LET market == sortedMarkets[i]
             amountToFill == AmountToFill(acc.remainingAmount, market.maxLiquidity)
             r == calculateSlippage(market.orderbook, amountToFill, s)
         IN  IF Failed(r) THEN Allocate(sortedMarkets, i + 1, s, acc)
             ELSE Allocate(sortedMarkets, i + 1, s,
                           [remainingAmount |-> acc.remainingAmount - amountToFill,
                            allocations |->
                                Append(acc.allocations,
                                       [marketId |-> market.marketId,
                                        amount |-> amountToFill,
                                        price |-> r.actualPrice,
                                        slippage |-> r.slippagePercent])])

\* mutant: a route that fills the amount exactly is reported short
RouteShortOrExact(remainingAmount) == remainingAmount >= 0

\* mutant: any remaining amount other than 0 is reported short
RouteShortNonZero(remainingAmount) == remainingAmount # 0

RouteShort(remainingAmount) == remainingAmount > 0

\* allocations.reduce((sum, a) => sum + a.amount * a.price, 0)
RECURSIVE RouteCost(_)
RouteCost(allocations) ==
    IF allocations = <<>> THEN RatOfInt(0)
    ELSE RatAdd(RouteCost(SubSeq(allocations, 1, Len(allocations) - 1)),
                RatMulInt(allocations[Len(allocations)].price,
                          allocations[Len(allocations)].amount))

\* mutant: the weighted slippages are summed without dividing by totalAmount
RECURSIVE WeightedSlippageUndivided(_, _)
WeightedSlippageUndivided(allocations, amount) ==
    IF allocations = <<>> THEN RatOfInt(0)
    ELSE RatAdd(WeightedSlippageUndivided(
                    SubSeq(allocations, 1, Len(allocations) - 1), amount),
                RatMulInt(allocations[Len(allocations)].slippage,
                          allocations[Len(allocations)].amount))

\* allocations.reduce((sum, a) => sum + (a.slippage * a.amount) / totalAmount, 0)
RECURSIVE WeightedSlippage(_, _)
WeightedSlippage(allocations, amount) ==
    IF allocations = <<>> THEN RatOfInt(0)
    ELSE RatAdd(WeightedSlippage(SubSeq(allocations, 1, Len(allocations) - 1),
                                 amount),
                RatDivInt(RatMulInt(allocations[Len(allocations)].slippage,
                                    allocations[Len(allocations)].amount),
                          amount))

\* mutant: the benchmark is the last market in price order
SingleMarketCostLast(sortedMarkets, amount, s, totalCost) ==
    IF Len(sortedMarkets) = 0 THEN totalCost
    ELSE LET single == calculateSlippage(
                           sortedMarkets[Len(sortedMarkets)].orderbook, amount, s)
         IN  IF Failed(single) THEN totalCost ELSE RatOfInt(single.totalCost)

\* cost of the whole amount in sortedMarkets[0]; any error, also the
\* TypeError on an empty market list, falls back to the route's cost
SingleMarketCost(sortedMarkets, amount, s, totalCost) ==
    IF Len(sortedMarkets) = 0 THEN totalCost
    ELSE LET single == calculateSlippage(sortedMarkets[1].orderbook, amount, s)
         IN  IF Failed(single) THEN totalCost ELSE RatOfInt(single.totalCost)

\* mutant: the benchmark stays at its initial 0 when the single market
\* cannot fill, and the difference is returned as it is
RouteSavingsUnguarded(sortedMarkets, amount, s, totalCost) ==
    LET single == IF Len(sortedMarkets) = 0 THEN None
                  ELSE calculateSlippage(sortedMarkets[1].orderbook, amount, s)
    IN  RatSub(IF Failed(single) THEN RatOfInt(0) ELSE RatOfInt(single.totalCost),
               totalCost)

\* Math.max(singleMarketCost - totalCost, 0)
RouteSavings(sortedMarkets, amount, s, totalCost) ==
    RatMax(RatSub(SingleMarketCost(sortedMarkets, amount, s, totalCost), totalCost),
           RatOfInt(0))

findOptimalRoute(amount, s, ms) ==
    LET sortedMarkets == SortMarkets(MarketAnalysis(ms), s)
        a == Allocate(sortedMarkets, 1, s,
                      [remainingAmount |-> amount, allocations |-> <<>>])
        totalCost == RouteCost(a.allocations)
    IN  IF RouteShort(a.remainingAmount)
        THEN [kind |-> "InsufficientAggregateLiquidity",
              missing |-> a.remainingAmount]
        ELSE [kind |-> "ok",
              markets |-> a.allocations,
              totalAmount |-> amount,
              averagePrice |-> RatDivInt(totalCost, amount),
              totalSlippage |-> WeightedSlippage(a.allocations, amount),
              savings |-> RouteSavings(sortedMarkets, amount, s, totalCost)]

\* mutant: the caller's array itself is reordered by base price
CallerMarketsSortedInPlace(ms, s) ==
    LET sortedMarkets == SortMarkets(MarketAnalysis(ms), s)
    IN  [i \in 1..Len(ms) |->
            [marketId |-> sortedMarkets[i].marketId,
             orderbook |-> sortedMarkets[i].orderbook]]

\* the caller's array once lines 34-51 have run: map builds a new array and
\* sort reorders that one
CallerMarketsAfterSort(ms, s) == ms

PositionOf(sortedMarkets, id) ==
    CHOOSE k \in 1..Len(sortedMarkets) : sortedMarkets[k].marketId = id

\* the ladder of market id after findOptimalRoute: the loop hands it to
\* calculateSlippage unless the amount was filled before its turn, and the
\* benchmark hands over the ladder of sortedMarkets[0] once more
LadderAfterRoute(amount, s, ms, id) ==
    LET sortedMarkets == SortMarkets(MarketAnalysis(ms), s)
        k == PositionOf(sortedMarkets, id)
        start == [remainingAmount |-> amount, allocations |-> <<>>]
        before == Allocate(SubSeq(sortedMarkets, 1, k - 1), 1, s, start)
        whole == Allocate(sortedMarkets, 1, s, start)
        market == sortedMarkets[k]
        afterLoop ==
            IF before.remainingAmount <= 0 THEN market.orderbook
            ELSE LadderAfterCall(market.orderbook,
                                 AmountToFill(before.remainingAmount,
                                              market.maxLiquidity), s)
    IN  IF k = 1 /\ ~RouteShort(whole.remainingAmount)
        THEN LadderAfterCall(afterLoop, amount, s)
        ELSE afterLoop

\* the caller's markets after findOptimalRoute
MarketsAfterRoute(amount, s, ms) ==
    LET after == CallerMarketsAfterSort(ms, s)
    IN  [i \in 1..Len(after) |->
            [marketId |-> after[i].marketId,
             orderbook |-> LadderAfterRoute(amount, s, ms, after[i].marketId)]]

-----------------------------------------------------------------------------
(* Inputs of the route specification *)

MaxRouteMarkets == 3

Level(p, q) == [price |-> p, quantity |-> q]

\* ladders as the caller hands them over: empty, one level, sorted for a
\* buy, sorted for a sell
RouteBooks ==
    {<<>>,
     <<Level(100, 2)>>,
     <<Level(101, 3)>>,
     <<Level(100, 1), Level(103, 2)>>,
     <<Level(102, 1), Level(101, 2)>>,
     <<Level(99, 1)>>}

RouteAmounts == {-1, 0, 1, 2, 3, 4, 5, 7, 10}

RouteMarketLists ==
    {[i \in 1..Len(bs) |-> [marketId |-> MarketIds[i], orderbook |-> bs[i]]] :
        bs \in SeqsUpTo(RouteBooks, MaxRouteMarkets)}

InitRoute ==
    /\ pc = "start"
    /\ op = "none"
    /\ orderbook = <<>>
    /\ side \in Sides
    /\ orderSize = 0
    /\ steps = <<>>
    /\ result = None
    /\ fills = <<>>
    /\ ladderResult = None
    /\ markets = <<>>
    /\ minSpreadPercent = RatOfInt(0)
    /\ opportunities = NoOpportunities
    /\ routeMarkets \in RouteMarketLists
    /\ totalAmount = 0
    /\ route = None
    /\ bids = <<>>
    /\ asks = <<>>
    /\ score = None
    /\ ServiceIdle

FindOptimalRoute ==
    /\ pc = "start"
    /\ \E amount \in RouteAmounts :
        /\ totalAmount' = amount
        /\ route' = findOptimalRoute(amount, side, routeMarkets)
        /\ routeMarkets' = MarketsAfterRoute(amount, side, routeMarkets)
    /\ pc' = "done"
    /\ op' = "findOptimalRoute"
    /\ UNCHANGED <<slipVars, arbVars, scoreVars, serviceVars>>

NextRoute == FindOptimalRoute

SpecRoute == InitRoute /\ [][NextRoute]_vars

\* the callers of the three operations that take ladders: a ladder with a
\* side, or a list of markets with a side
InitCallers == InitSlippage \/ InitRoute

NextCallers == NextSlippage \/ NextRoute

SpecCallers == InitCallers /\ [][NextCallers]_vars

-----------------------------------------------------------------------------
(* LiquidityScorer *)

TopLevels == 10
DepthNormalizer == 100000

RECURSIVE SumQuantity(_)
SumQuantity(levels) ==
    IF levels = <<>> THEN 0
    ELSE Head(levels).quantity + SumQuantity(Tail(levels))

\* (bidDepth + askDepth) / 2 over the first 10 levels of each side
calculateDepth(bidLevels, askLevels) ==
    Rat(SumQuantity(SubSeq(bidLevels, 1, Min(TopLevels, Len(bidLevels))))
            + SumQuantity(SubSeq(askLevels, 1, Min(TopLevels, Len(askLevels)))),
        2)

MaxPrice(levels) ==
    CHOOSE p \in {levels[i].price : i \in 1..Len(levels)} :
        \A i \in 1..Len(levels) : levels[i].price <= p

MinPrice(levels) ==
    CHOOSE p \in {levels[i].price : i \in 1..Len(levels)} :
        \A i \in 1..Len(levels) : p <= levels[i].price

\* mutant: the sentinel for an empty side is 1, a fraction like the spread
\* of a two-sided book, where the code returns 100
calculateSpreadSentinelOne(bidLevels, askLevels) ==
    IF Len(bidLevels) = 0 \/ Len(askLevels) = 0 THEN RatOfInt(1)
    ELSE Rat(MinPrice(askLevels) - MaxPrice(bidLevels), MaxPrice(bidLevels))

calculateSpread(bidLevels, askLevels) ==
    IF Len(bidLevels) = 0 \/ Len(askLevels) = 0 THEN RatOfInt(100)
    ELSE Rat(MinPrice(askLevels) - MaxPrice(bidLevels), MaxPrice(bidLevels))

RECURSIVE InsertQuantity(_, _)
InsertQuantity(sorted, q) ==
    IF sorted = <<>> THEN <<q>>
    ELSE IF q < Head(sorted) THEN <<q>> \o sorted
    ELSE <<Head(sorted)>> \o InsertQuantity(Tail(sorted), q)

\* allLevels.map(l => l.quantity).sort((a, b) => a - b)
RECURSIVE SortedQuantities(_)
SortedQuantities(levels) ==
    IF levels = <<>> THEN <<>>
    ELSE InsertQuantity(SortedQuantities(SubSeq(levels, 1, Len(levels) - 1)),
                        levels[Len(levels)].quantity)

\* sum over i < n of (2 * (i + 1) - n - 1) * quantities[i], i from 0
RECURSIVE GiniSum(_, _)
GiniSum(quantities, k) ==
    IF k > Len(quantities) THEN 0
    ELSE (2 * k - Len(quantities) - 1) * quantities[k]
             + GiniSum(quantities, k + 1)

RECURSIVE SumSeq(_)
SumSeq(qs) == IF qs = <<>> THEN 0 ELSE Head(qs) + SumSeq(Tail(qs))

calculateConcentration(bidLevels, askLevels) ==
    LET quantities == SortedQuantities(bidLevels \o askLevels)
        n == Len(quantities)
        totalQuantity == SumSeq(quantities)
    IN  IF n = 0 THEN RatOfInt(1)
        ELSE IF totalQuantity = 0 THEN RatOfInt(1)
        ELSE Rat(GiniSum(quantities, 1), n * totalQuantity)

\* Math.round(x * 100) / 100; Math.round(y) is floor(y + 1/2)
RoundToHundredths(x) ==
    Rat((2 * x.num * 100 + x.den) \div (2 * x.den), 100)

RatMin(a, b) == IF RatLess(b, a) THEN b ELSE a

calculateScore(bidLevels, askLevels) ==
    LET depth == calculateDepth(bidLevels, askLevels)
        spread == calculateSpread(bidLevels, askLevels)
        concentration == calculateConcentration(bidLevels, askLevels)
        depthScore == RatMin(Rat(depth.num * 100, depth.den * DepthNormalizer),
                             RatOfInt(100))
        spreadScore == RatMax(RatSub(RatOfInt(100), RatMulInt(spread, 100)),
                              RatOfInt(0))
        concentrationScore == RatMulInt(RatSub(RatOfInt(1), concentration), 100)
        \* depthScore * 0.4 + spreadScore * 0.4 + concentrationScore * 0.2
        overall == RatDivInt(RatAdd(RatAdd(RatMulInt(depthScore, 4),
                                           RatMulInt(spreadScore, 4)),
                                    RatMulInt(concentrationScore, 2)),
                             10)
    IN  [overall |-> RoundToHundredths(overall),
         depth |-> depth,
         spread |-> spread,
         concentration |-> concentration,
         resilience |-> 0]

-----------------------------------------------------------------------------
(* Inputs of the score specification *)

MaxScoreLevels == 2

ScoreLevels == [price : {100, 101}, quantity : {0, 50000, 100000}]

ScoreLadders == SeqsUpTo(ScoreLevels, MaxScoreLevels)

InitScore ==
    /\ pc = "start"
    /\ op = "none"
    /\ orderbook = <<>>
    /\ side = "buy"
    /\ orderSize = 0
    /\ steps = <<>>
    /\ result = None
    /\ fills = <<>>
    /\ ladderResult = None
    /\ markets = <<>>
    /\ minSpreadPercent = RatOfInt(0)
    /\ opportunities = NoOpportunities
    /\ routeMarkets = <<>>
    /\ totalAmount = 0
    /\ route = None
    /\ bids \in ScoreLadders
    /\ asks \in ScoreLadders
    /\ score = None
    /\ ServiceIdle

CalculateScore ==
    /\ pc = "start"
    /\ score' = calculateScore(bids, asks)
    /\ pc' = "done"
    /\ op' = "calculateScore"
    /\ UNCHANGED <<bids, asks>>
    /\ UNCHANGED <<slipVars, arbVars, routeVars, serviceVars>>

NextScore == CalculateScore

SpecScore == InitScore /\ [][NextScore]_vars

-----------------------------------------------------------------------------
(* LiquidityService *)

\* parseFloat on the strings the upstream sends
ParseFloat(str) ==
    CASE str = "0" -> 0
      [] str = "1" -> 1
      [] str = "2" -> 2
      [] str = "3" -> 3
      [] str = "100" -> 100
      [] str = "101" -> 101
      [] str = "103" -> 103
      [] str = "104" -> 104

\* String.prototype.toUpperCase on the token symbols
ToUpperCase(str) ==
    CASE str = "inj" -> "INJ"
      [] str = "usdt" -> "USDT"
      [] OTHER -> str

\* levels[0]?.price || '0'
TopPrice(levels) ==
    IF Len(levels) = 0 \/ levels[1].price = "" THEN "0" ELSE levels[1].price

\* levels[0]?.quantity || '0'
TopQuantity(levels) ==
    IF Len(levels) = 0 \/ levels[1].quantity = "" THEN "0"
    ELSE levels[1].quantity

\* what the callback of findArbitrageOpportunities returns for a fetched book
ArbitrageMarketData(market) ==
    [marketId |-> market.marketId,
     token |-> market.baseToken,
     bestBid |-> ParseFloat(TopPrice(market.buys)),
     bestAsk |-> ParseFloat(TopPrice(market.sells)),
     bidQuantity |-> ParseFloat(TopQuantity(market.buys)),
     askQuantity |-> ParseFloat(TopQuantity(market.sells))]

\* what the catch clause of that callback returns
Null == [kind |-> "null"]

\* mutant: markets without a bid or an ask are kept
ValidMarketNotNull(m) == m # Null

\* the filter on marketData
ValidMarket(m) == m # Null /\ m.bestBid > 0 /\ m.bestAsk > 0

\* formatOrderbook: the asks for a buy, the bids for a sell, parsed
formatOrderbook(market, s) ==
    LET levels == IF s = "buy" THEN market.sells ELSE market.buys
    IN  [i \in 1..Len(levels) |->
            [price |-> ParseFloat(levels[i].price),
             quantity |-> ParseFloat(levels[i].quantity)]]

\* what the callback of findBestRoute returns for a fetched book
RouteMarketData(market, s) ==
    [marketId |-> market.marketId, orderbook |-> formatOrderbook(market, s)]

\* the filter of findBestRoute on the spot markets
TokenMatches(market, t) ==
    \/ ToUpperCase(market.baseToken) = ToUpperCase(t)
    \/ ToUpperCase(market.quoteToken) = ToUpperCase(t)

Inflight(n) == [i \in 1..n |-> "inflight"]

Pending(n) == [i \in 1..n |-> None]

AllSettled == \A i \in 1..Len(fetchState) : fetchState[i] # "inflight"

\* mutant: no callback catches the failure of its fetch
CallbackCatchesNever(operation) == FALSE

\* the operations whose Promise.all callback wraps getOrderbook in try/catch
CallbackCatches(operation) == operation = "findArbitrageOpportunities"

-----------------------------------------------------------------------------
(* Inputs of the service specification *)

MaxServiceMarkets == 3

StringLevel(p, q) == [price |-> p, quantity |-> q]

\* order books as the upstream sends them: two-sided, two-sided at higher
\* prices, and without bids
UpstreamBooks ==
    {[buys |-> <<StringLevel("100", "2")>>, sells |-> <<StringLevel("101", "2")>>],
     [buys |-> <<StringLevel("103", "1")>>, sells |-> <<StringLevel("104", "3")>>],
     [buys |-> <<>>, sells |-> <<StringLevel("101", "1")>>]}

SpotMarketLists ==
    {[i \in 1..Len(bs) |->
         [marketId |-> MarketIds[i], baseToken |-> "INJ", quoteToken |-> "USDT",
          buys |-> bs[i].buys, sells |-> bs[i].sells]] :
        bs \in SeqsUpTo(UpstreamBooks, MaxServiceMarkets)}

ServiceMinSpreads == {RatOfInt(0), [num |-> 1, den |-> 2]}

ServiceTokens == {"inj", "ATOM"}

ServiceAmounts == {1, 4}

InitService ==
    /\ pc = "start"
    /\ op = "none"
    /\ orderbook = <<>>
    /\ side = "buy"
    /\ orderSize = 0
    /\ steps = <<>>
    /\ result = None
    /\ fills = <<>>
    /\ ladderResult = None
    /\ markets = <<>>
    /\ minSpreadPercent = RatOfInt(0)
    /\ opportunities = NoOpportunities
    /\ routeMarkets = <<>>
    /\ totalAmount = 0
    /\ route = None
    /\ bids = <<>>
    /\ asks = <<>>
    /\ score = None
    /\ spotMarkets \in SpotMarketLists
    /\ requestToken = ""
    /\ fetchedMarkets = <<>>
    /\ fetchState = <<>>
    /\ completionOrder = <<>>
    /\ marketData = <<>>
    /\ response = None

algoVars == <<orderbook, orderSize, steps, result, fills, ladderResult,
              markets, opportunities, routeMarkets, route, scoreVars>>

\* findArbitrageOpportunities up to its await of Promise.all: every callback
\* has run up to its own await, so every fetch is issued
StartFindArbitrageOpportunities ==
    /\ pc = "start"
    /\ \E minSpread \in ServiceMinSpreads : minSpreadPercent' = minSpread
    /\ fetchedMarkets' = spotMarkets
    /\ fetchState' = Inflight(Len(spotMarkets))
    /\ marketData' = Pending(Len(spotMarkets))
    /\ pc' = "fetching"
    /\ op' = "findArbitrageOpportunities"
    /\ UNCHANGED <<algoVars, side, totalAmount, spotMarkets, requestToken,
                   completionOrder, response>>

\* findBestRoute up to its await of Promise.all, or to its NotFoundException
StartFindBestRoute ==
    /\ pc = "start"
    /\ \E t \in ServiceTokens, amount \in ServiceAmounts, s \in Sides :
        LET matching == SelectSeq(spotMarkets, LAMBDA m : TokenMatches(m, t))
        IN  /\ requestToken' = t
            /\ totalAmount' = amount
            /\ side' = s
            /\ fetchedMarkets' = matching
            /\ fetchState' = Inflight(Len(matching))
            /\ marketData' = Pending(Len(matching))
            /\ IF Len(matching) = 0
               THEN /\ response' = [kind |-> "rejected",
                                    error |-> [kind |-> "NotFound"]]
                    /\ pc' = "done"
               ELSE /\ response' = response
                    /\ pc' = "fetching"
    /\ op' = "findBestRoute"
    /\ UNCHANGED <<algoVars, minSpreadPercent, spotMarkets, completionOrder>>

\* getOrderbook of one market resolves and its callback returns
FetchResolves ==
    /\ pc = "fetching"
    /\ \E i \in 1..Len(fetchState) :
        /\ fetchState[i] = "inflight"
        /\ fetchState' = [fetchState EXCEPT ![i] = "resolved"]
        /\ completionOrder' = Append(completionOrder, i)
        /\ marketData' =
               [marketData EXCEPT ![i] =
                   IF op = "findArbitrageOpportunities"
                   THEN ArbitrageMarketData(fetchedMarkets[i])
                   ELSE RouteMarketData(fetchedMarkets[i], side)]
    /\ UNCHANGED <<pc, op, algoVars, side, totalAmount, minSpreadPercent,
                   spotMarkets, requestToken, fetchedMarkets, response>>

\* getOrderbook of one market rejects: a callback that catches returns null,
\* otherwise its promise rejects and with it Promise.all and the call
FetchRejects ==
    /\ pc = "fetching"
    /\ \E i \in 1..Len(fetchState) :
        /\ fetchState[i] = "inflight"
        /\ fetchState' = [fetchState EXCEPT ![i] = "rejected"]
        /\ completionOrder' = Append(completionOrder, i)
        /\ IF CallbackCatches(op)
           THEN /\ marketData' = [marketData EXCEPT ![i] = Null]
                /\ UNCHANGED <<pc, response>>
           ELSE /\ response' = [kind |-> "rejected",
                                error |-> [kind |-> "FetchFailed",
                                           marketId |-> fetchedMarkets[i].marketId]]
                /\ pc' = "done"
                /\ UNCHANGED marketData
    /\ UNCHANGED <<op, algoVars, side, totalAmount, minSpreadPercent,
                   spotMarkets, requestToken, fetchedMarkets>>

\* Promise.all has resolved: filter, scan, answer
FinishFindArbitrageOpportunities ==
    /\ pc = "fetching"
    /\ op = "findArbitrageOpportunities"
    /\ AllSettled
    /\ LET validMarkets == SelectSeq(marketData, ValidMarket)
           found == findOpportunities(validMarkets, minSpreadPercent)
       IN  response' = [kind |-> "ok", opportunities |-> found,
                        count |-> Len(found)]
    /\ pc' = "done"
    /\ UNCHANGED <<op, algoVars, side, totalAmount, minSpreadPercent,
                   spotMarkets, requestToken, fetchedMarkets, fetchState,
                   completionOrder, marketData>>

\* Promise.all has resolved: route, answer; an error of findOptimalRoute
\* rejects the call
FinishFindBestRoute ==
    /\ pc = "fetching"
    /\ op = "findBestRoute"
    /\ AllSettled
    /\ LET r == findOptimalRoute(totalAmount, side, marketData)
       IN  response' = IF r.kind = "ok" THEN r
                       ELSE [kind |-> "rejected", error |-> r]
    /\ pc' = "done"
    /\ UNCHANGED <<op, algoVars, side, totalAmount, minSpreadPercent,
                   spotMarkets, requestToken, fetchedMarkets, fetchState,
                   completionOrder, marketData>>

NextService ==
    \/ StartFindArbitrageOpportunities
    \/ StartFindBestRoute
    \/ FetchResolves
    \/ FetchRejects
    \/ FinishFindArbitrageOpportunities
    \/ FinishFindBestRoute

SpecService == InitService /\ [][NextService]_vars

-----------------------------------------------------------------------------
(* Properties of calculateSlippage *)

RECURSIVE TotalQuantity(_)
TotalQuantity(book) ==
    IF book = <<>> THEN 0
    ELSE Head(book).quantity + TotalQuantity(Tail(book))

RECURSIVE SumTake(_)
SumTake(f) == IF f = <<>> THEN 0 ELSE Head(f).take + SumTake(Tail(f))

RECURSIVE SumTakeTimesPrice(_)
SumTakeTimesPrice(f) ==
    IF f = <<>> THEN 0
    ELSE Head(f).take * Head(f).price + SumTakeTimesPrice(Tail(f))

PricesOf(book) == {book[i].price : i \in 1..Len(book)}

\* p is at least as good a price as q for the side
AsGood(p, q, s) == IF s = "buy" THEN p <= q ELSE p >= q

IsBestPrice(p, book, s) ==
    p \in PricesOf(book) /\ \A q \in PricesOf(book) : AsGood(p, q, s)

CountLevel(book, l) == Cardinality({i \in 1..Len(book) : book[i] = l})

LevelOf(f) == [price |-> f.price, quantity |-> f.quantity]

VisitedLevels == [i \in 1..Len(fills) |-> LevelOf(fills[i])]

SlippageDone == pc = "done" /\ op = "calculateSlippage"

Fillable ==
    /\ SlippageDone
    /\ orderSize > 0
    /\ Len(orderbook) > 0
    /\ TotalQuantity(orderbook) >= orderSize

C2_InsufficientIffShort ==
    (SlippageDone /\ orderSize > 0 /\ Len(orderbook) > 0) =>
        /\ result.kind = "InsufficientLiquidity"
               <=> TotalQuantity(orderbook) < orderSize
        /\ TotalQuantity(orderbook) = orderSize => result.kind = "ok"

C2_Witness ==
    /\ SlippageDone
    /\ Len(orderbook) = 2
    /\ TotalQuantity(orderbook) < orderSize
    /\ result.kind = "InsufficientLiquidity"

\* C3: calculateSlippage fails with InvalidOrderSize for every orderSize <= 0,
\* whatever the ladder (the size check comes first, also on an empty ladder),
\* and with EmptyLadder for orderSize > 0 on an empty ladder; neither case
\* walks a level or yields a result.
C3_SizeCheckThenEmptyCheck ==
    SlippageDone =>
        /\ orderSize <= 0 =>
               result = [kind |-> "InvalidOrderSize"] /\ fills = <<>>
        /\ (orderSize > 0 /\ Len(orderbook) = 0) =>
               result = [kind |-> "EmptyLadder"] /\ fills = <<>>

\* size 0 on an empty ladder
C3_Witness ==
    /\ SlippageDone
    /\ orderSize = 0
    /\ Len(orderbook) = 0
    /\ result.kind = "InvalidOrderSize"

BestLevelCovers ==
    /\ SlippageDone
    /\ orderSize > 0
    /\ \E i \in 1..Len(orderbook) :
           /\ IsBestPrice(orderbook[i].price, orderbook, side)
           /\ orderbook[i].quantity >= orderSize

\* C4: when a best-priced level of the ladder (lowest price for Buy, highest
\* for Sell) holds at least orderSize > 0, calculateSlippage returns
\* slippagePercent = priceImpact = 0, actualPrice = expectedPrice and
\* totalCost = orderSize * expectedPrice.  Scenario B (Buy 10) gives
\* actualPrice 100, slippagePercent 0, totalCost 1000.
C4_NoSlippageWithinBestLevel ==
    BestLevelCovers =>
        /\ result.kind = "ok"
        /\ result.slippagePercent = RatOfInt(0)
        /\ result.priceImpact = RatOfInt(0)
        /\ result.actualPrice = RatOfInt(result.expectedPrice)
        /\ result.totalCost = orderSize * result.expectedPrice
        /\ (orderbook = ScenarioA /\ side = "buy" /\ orderSize = 10) =>
               /\ result.actualPrice = RatOfInt(100)
               /\ result.totalCost = 1000

\* the best level is not the first level of the ladder as given
C4_Witness ==
    /\ BestLevelCovers
    /\ Len(orderbook) >= 2
    /\ ~IsBestPrice(orderbook[1].price, orderbook, side)
    /\ result.kind = "ok"

\* C22: when calculateSlippage fails with InsufficientLiquidity, the error
\* carries both quantities: the filled amount, which is the total quantity of
\* the whole ladder, and the requested orderSize.
C22_ErrorCarriesFilledAndRequested ==
    (SlippageDone /\ result.kind = "InsufficientLiquidity") =>
        /\ DOMAIN result = {"kind", "filled", "requested"}
        /\ result.filled = TotalQuantity(orderbook)
        /\ result.requested = orderSize
        /\ result.filled < result.requested

\* a ladder of several levels, not in price order, all of it taken
C22_Witness ==
    /\ SlippageDone
    /\ result.kind = "InsufficientLiquidity"
    /\ Len(orderbook) >= 2
    /\ SortBook(orderbook, side) # orderbook
    /\ result.filled = TotalQuantity(orderbook)
    /\ result.filled # orderSize - result.filled
    /\ Len(fills) = Len(orderbook)

\* the sizes of the model's inputs that are positive and at most size
SmallerSizes(size) == {s1 \in OrderSizes : 0 < s1 /\ s1 <= size}

\* C27: for a fixed ladder and side slippage is monotone in the order size:
\* for sizes 0 < s1 <= s2 that are both fillable, slippagePercent(s1) <=
\* slippagePercent(s2) with the same expectedPrice, and actualPrice >=
\* expectedPrice for a Buy, <= expectedPrice for a Sell.
C27_SlippageMonotoneInSize ==
    (SlippageDone /\ result.kind = "ok") =>
        /\ IF side = "buy"
           THEN RatLeq(RatOfInt(result.expectedPrice), result.actualPrice)
           ELSE RatLeq(result.actualPrice, RatOfInt(result.expectedPrice))
        /\ \A s1 \in SmallerSizes(orderSize) :
               LET smaller == calculateSlippage(orderbook, s1, side)
               IN  /\ smaller.kind = "ok"
                   /\ smaller.expectedPrice = result.expectedPrice
                   /\ RatLeq(smaller.slippagePercent, result.slippagePercent)

\* a sell across three levels of a ladder that arrived out of order; two
\* smaller sizes slip less, one of them not at all
C27_Witness ==
    /\ SlippageDone
    /\ result.kind = "ok"
    /\ side = "sell"
    /\ Len(fills) = 3
    /\ SortBook(orderbook, side) # orderbook
    /\ \E s1, s0 \in SmallerSizes(orderSize) :
           LET smaller == calculateSlippage(orderbook, s1, side)
               smallest == calculateSlippage(orderbook, s0, side)
           IN  /\ smallest.slippagePercent = RatOfInt(0)
               /\ RatLess(smallest.slippagePercent, smaller.slippagePercent)
               /\ RatLess(smaller.slippagePercent, result.slippagePercent)

-----------------------------------------------------------------------------
(* Properties of calculateSlippageLadder *)

LadderDone == pc = "done" /\ op = "calculateSlippageLadder"

\* the three ways calculateSlippage fails, read off the inputs
WouldFail(size) ==
    \/ size <= 0
    \/ Len(orderbook) = 0
    \/ TotalQuantity(orderbook) < size

ScenarioDCall ==
    /\ LadderDone
    /\ orderbook = ScenarioD
    /\ side = "buy"
    /\ steps = <<5, 15, 25>>

ScenarioABuy100 ==
    /\ SlippageDone
    /\ orderbook = ScenarioA
    /\ side = "buy"
    /\ orderSize = 100

RecoverableAsStated == {"InsufficientLiquidity", "EmptyLadder"}

\* the requested sizes whose failure is neither of the two liquidity errors
PropagatingSteps ==
    {i \in 1..Len(steps) :
        LET single == calculateSlippage(orderbook, steps[i], side)
        IN  Failed(single) /\ single.kind \notin RecoverableAsStated}

\* C19 as stated: calculateSlippageLadder recovers only from
\* InsufficientLiquidity and EmptyLadder; any other failure of
\* calculateSlippage, InvalidOrderSize for a size <= 0 in particular, reaches
\* the caller of calculateSlippageLadder unmodified instead of becoming a
\* none slot.
C19_AsStated ==
    (LadderDone /\ PropagatingSteps # {}) =>
        LET first == CHOOSE i \in PropagatingSteps :
                         \A j \in PropagatingSteps : i <= j
        IN  /\ ladderResult.kind = "raised"
            /\ ladderResult.error = calculateSlippage(orderbook, steps[first], side)

\* C19: calculateSlippageLadder recovers from every failure of
\* calculateSlippage: a size <= 0 fails with InvalidOrderSize, that failure
\* becomes a none slot for the size like the two liquidity errors do, and no
\* error reaches the caller.
C19_InvalidSizeBecomesNoneSlot ==
    LadderDone =>
        /\ ladderResult.kind # "raised"
        /\ \A i \in 1..Len(steps) :
               steps[i] <= 0 =>
                   /\ calculateSlippage(orderbook, steps[i], side).kind
                          = "InvalidOrderSize"
                   /\ ladderResult.slots[i] =
                          [orderSize |-> steps[i], slippage |-> None]

\* a size that fills, then a size of 0
C19_Witness ==
    /\ LadderDone
    /\ Len(steps) = 2
    /\ steps[2] = 0
    /\ PropagatingSteps = {2}
    /\ ladderResult.kind = "returned"
    /\ ladderResult.slots[1].slippage.kind = "ok"
    /\ ladderResult.slots[2].slippage = None

-----------------------------------------------------------------------------
(* Properties of findOpportunities *)

ArbitrageDone == pc = "done" /\ op = "findOpportunities"

MarketById(id) ==
    markets[CHOOSE i \in 1..Len(markets) : markets[i].marketId = id]

\* C8: every opportunity findOpportunities returns has
\* spreadPercent >= minSpreadPercent, where spreadPercent is
\* (sell.bestBid - buy.bestAsk) / buy.bestAsk * 100, for every list of
\* markets and every minSpreadPercent >= 0.
C8_SpreadAtLeastMinimum ==
    ArbitrageDone =>
        \A k \in 1..Len(opportunities) :
            LET o == opportunities[k]
                buy == MarketById(o.buyMarket)
                sell == MarketById(o.sellMarket)
            IN  /\ RatLeq(minSpreadPercent, o.spreadPercent)
                /\ o.spreadPercent.num * buy.bestAsk
                       = (sell.bestBid - buy.bestAsk) * 100 * o.spreadPercent.den

\* something is returned while a same-token pair with a positive spread
\* below the minimum is left out
C8_Witness ==
    /\ ArbitrageDone
    /\ minSpreadPercent = [num |-> 1, den |-> 2]
    /\ Len(opportunities) >= 1
    /\ \E i, j \in 1..Len(markets) :
           /\ i # j
           /\ markets[i].token = markets[j].token
           /\ markets[i].bestAsk < markets[j].bestBid
           /\ markets[i].bestAsk > 0
           /\ (markets[j].bestBid - markets[i].bestAsk) * 100 * 2
                  < markets[i].bestAsk

\* C9: every opportunity names a buy market and a sell market that are two
\* different entries of the input, both with exactly the opportunity's token;
\* markets of different tokens are never paired, so an input in which every
\* token has a single market yields no opportunity.
C9_SameTokenPairsOnly ==
    ArbitrageDone =>
        /\ \A k \in 1..Len(opportunities) :
               \E i, j \in 1..Len(markets) :
                   /\ i # j
                   /\ markets[i].marketId = opportunities[k].buyMarket
                   /\ markets[j].marketId = opportunities[k].sellMarket
                   /\ markets[i].token = opportunities[k].token
                   /\ markets[j].token = opportunities[k].token
        /\ (\A i, j \in 1..Len(markets) :
                i # j => markets[i].token # markets[j].token)
               => opportunities = <<>>

\* an opportunity is returned while two markets of different tokens, whose
\* prices would pair profitably, are in the input
C9_Witness ==
    /\ ArbitrageDone
    /\ Len(opportunities) >= 1
    /\ \E i, j \in 1..Len(markets) :
           /\ markets[i].token # markets[j].token
           /\ markets[i].bestAsk = 1525
           /\ markets[j].bestBid = 1535

\* C10: the returned sequence is in non-increasing order of estimatedProfit,
\* all token groups together.
C10_SortedByProfitDescending ==
    ArbitrageDone =>
        \A k \in 1..(Len(opportunities) - 1) :
            RatLeq(opportunities[k + 1].estimatedProfit,
                   opportunities[k].estimatedProfit)

\* the most profitable opportunity is not of the first token group scanned
C10_Witness ==
    /\ ArbitrageDone
    /\ Len(opportunities) >= 2
    /\ opportunities[1].token # markets[1].token
    /\ \E k \in 2..Len(opportunities) :
           /\ opportunities[k].token = markets[1].token
           /\ RatLess(opportunities[k].estimatedProfit,
                      opportunities[1].estimatedProfit)

\* the three conditions of checkArbitrage for buying on market i and selling
\* on market j, cleared of their divisions
Passes(i, j) ==
    LET buyPrice == markets[i].bestAsk
        sellPrice == markets[j].bestBid
        size == Min(markets[i].askQuantity, markets[j].bidQuantity)
    IN  /\ buyPrice < sellPrice
        /\ (sellPrice - buyPrice) * 100 * minSpreadPercent.den
               >= minSpreadPercent.num * buyPrice
        /\ (FeeDen * (sellPrice - buyPrice) - FeeNum * (buyPrice + sellPrice))
               * size > 0

\* how many opportunities buy on market i and sell on market j
Reported(i, j) ==
    Cardinality({k \in 1..Len(opportunities) :
                    /\ opportunities[k].buyMarket = markets[i].marketId
                    /\ opportunities[k].sellMarket = markets[j].marketId})

ScenarioCCall ==
    /\ ArbitrageDone
    /\ markets = <<WithId(Quote("INJ", 1520, 1525, 100, 100), 1),
                   WithId(Quote("INJ", 1535, 1540, 100, 100), 2)>>
    /\ minSpreadPercent = [num |-> 1, den |-> 2]

\* C20: the output of findOpportunities is exactly the ordered pairs
\* (buy, sell) of distinct same-token input markets that pass checkArbitrage
\* (buy.bestAsk < sell.bestBid, spreadPercent >= minSpreadPercent,
\* estimatedProfit > 0): both directions of every pair are evaluated, no
\* passing pair is left out and none is reported twice; for the markets
\* (15.20, 15.25) and (15.35, 15.40) with minSpreadPercent 0.5 the output is
\* the one opportunity buying on market 1 and selling on market 2.
C20_ExactlyThePassingPairs ==
    /\ ArbitrageDone =>
           /\ \A i, j \in 1..Len(markets) :
                  Reported(i, j) =
                      IF i # j /\ markets[i].token = markets[j].token /\ Passes(i, j)
                      THEN 1 ELSE 0
           /\ \A k \in 1..Len(opportunities) :
                  \E i, j \in 1..Len(markets) :
                      /\ opportunities[k].buyMarket = markets[i].marketId
                      /\ opportunities[k].sellMarket = markets[j].marketId
    /\ ScenarioCCall =>
           /\ Len(opportunities) = 1
           /\ opportunities[1].buyMarket = "market1"
           /\ opportunities[1].sellMarket = "market2"
           /\ opportunities[1].spreadPercent = Rat(40, 61)

\* the two markets of scenario C, in the order that makes market 1 the buy
\* side
C20_Witness ==
    /\ ScenarioCCall
    /\ Passes(1, 2)
    /\ ~Passes(2, 1)
    /\ Len(opportunities) = 1

\* FeeDen times the profit of buying on market i and selling on market j,
\* from the quotes
NetProfitTimesFeeDen(buy, sell) ==
    LET size == IF buy.askQuantity <= sell.bidQuantity
                THEN buy.askQuantity ELSE sell.bidQuantity
    IN  (FeeDen * (sell.bestBid - buy.bestAsk)
            - FeeNum * (buy.bestAsk + sell.bestBid)) * size

\* the spread of the pair passes the minimum
SpreadPasses(buy, sell) ==
    /\ buy.bestAsk < sell.bestBid
    /\ (sell.bestBid - buy.bestAsk) * 100 * minSpreadPercent.den
           >= minSpreadPercent.num * buy.bestAsk

\* C21: every opportunity findOpportunities returns has
\* maxProfitableSize = min(buy.askQuantity, sell.bidQuantity) and
\* estimatedProfit = (spread - 0.002 * (buyPrice + sellPrice)) *
\* maxProfitableSize with estimatedProfit > 0; a pair whose spread passes
\* minSpreadPercent but whose profit after fees is <= 0 is rejected.
C21_ProfitAfterFees ==
    ArbitrageDone =>
        /\ \A k \in 1..Len(opportunities) :
               LET o == opportunities[k]
                   buy == MarketById(o.buyMarket)
                   sell == MarketById(o.sellMarket)
               IN  /\ o.maxProfitableSize <= buy.askQuantity
                   /\ o.maxProfitableSize <= sell.bidQuantity
                   /\ o.maxProfitableSize \in {buy.askQuantity, sell.bidQuantity}
                   /\ o.estimatedProfit.den > 0
                   /\ o.estimatedProfit.num * FeeDen
                          = NetProfitTimesFeeDen(buy, sell) * o.estimatedProfit.den
                   /\ o.estimatedProfit.num > 0
        /\ \A i, j \in 1..Len(markets) :
               (/\ i # j
                /\ markets[i].token = markets[j].token
                /\ SpreadPasses(markets[i], markets[j])
                /\ NetProfitTimesFeeDen(markets[i], markets[j]) <= 0)
                   => Reported(i, j) = 0

\* one pair is reported, and another pair of the same token has a spread
\* above the minimum that the fees eat up
C21_Witness ==
    /\ ArbitrageDone
    /\ Len(opportunities) >= 1
    /\ \E i, j \in 1..Len(markets) :
           /\ i # j
           /\ markets[i].token = markets[j].token
           /\ SpreadPasses(markets[i], markets[j])
           /\ NetProfitTimesFeeDen(markets[i], markets[j]) <= 0
           /\ Reported(i, j) = 0

NotCrossed(m) == m.bestBid <= m.bestAsk

\* C29: for two same-token markets that each have bestBid <= bestAsk,
\* findOpportunities returns at most one of the two directions; both
\* directions are returned together only when at least one of the two
\* markets has bestAsk < bestBid.
C29_OneDirectionUnlessCrossed ==
    ArbitrageDone =>
        \A i, j \in 1..Len(markets) :
            (/\ i # j
             /\ markets[i].token = markets[j].token
             /\ NotCrossed(markets[i])
             /\ NotCrossed(markets[j])) =>
                Reported(i, j) + Reported(j, i) <= 1

\* one pair of markets with bid below ask reported in one direction, and a
\* pair with a crossed market reported in both
C29_Witness ==
    /\ ArbitrageDone
    /\ \E i, j \in 1..Len(markets) :
           /\ NotCrossed(markets[i])
           /\ NotCrossed(markets[j])
           /\ Reported(i, j) = 1
           /\ Reported(j, i) = 0
    /\ \E i, j \in 1..Len(markets) :
           /\ i # j
           /\ ~NotCrossed(markets[i])
           /\ Reported(i, j) = 1
           /\ Reported(j, i) = 1

-----------------------------------------------------------------------------
(* Properties of findOptimalRoute *)

RouteDone == pc = "done" /\ op = "findOptimalRoute"

RouteReturned == RouteDone /\ route.kind = "ok"

RECURSIVE CombinedLiquidity(_)
CombinedLiquidity(ms) ==
    IF ms = <<>> THEN 0
    ELSE TotalQuantity(Head(ms).orderbook) + CombinedLiquidity(Tail(ms))

RECURSIVE SumAmount(_)
SumAmount(as) == IF as = <<>> THEN 0 ELSE Head(as).amount + SumAmount(Tail(as))

RouteMarketById(id) ==
    routeMarkets[CHOOSE i \in 1..Len(routeMarkets) : routeMarkets[i].marketId = id]

\* price of the first level of the market's ladder as given (0 if it has none)
FirstPriceOf(id) ==
    LET book == RouteMarketById(id).orderbook
    IN  IF book = <<>> THEN 0 ELSE Head(book).price

LiquidityOf(id) == TotalQuantity(RouteMarketById(id).orderbook)

AllocatedIds == {route.markets[k].marketId : k \in 1..Len(route.markets)}

\* C11: savings >= 0 in every Route findOptimalRoute returns, for both sides
\* and every list of markets and totalAmount for which the call succeeds.
C11_SavingsNonNegative ==
    RouteReturned => RatLeq(RatOfInt(0), route.savings)

\* a route split over two markets, the first of which cannot fill it alone
C11_Witness ==
    /\ RouteReturned
    /\ Len(route.markets) >= 2
    /\ LiquidityOf(route.markets[1].marketId) < totalAmount

SufficientLiquidity ==
    /\ RouteDone
    /\ totalAmount > 0
    /\ CombinedLiquidity(routeMarkets) >= totalAmount

\* C12: with combined liquidity >= totalAmount > 0, findOptimalRoute visits
\* the markets in order of the price of their first level as given (ascending
\* for Buy, descending for Sell), gives each visited market
\* min(remaining, maxLiquidity) and stops when nothing remains: every
\* allocated market but the last gets its whole liquidity and the amounts sum
\* to totalAmount.
C12_GreedyByBasePrice ==
    SufficientLiquidity =>
        /\ route.kind = "ok"
        /\ \A k, l \in 1..Len(route.markets) :
               k < l => AsGood(FirstPriceOf(route.markets[k].marketId),
                               FirstPriceOf(route.markets[l].marketId), side)
        /\ \A i \in 1..Len(routeMarkets) :
               (/\ routeMarkets[i].marketId \notin AllocatedIds
                /\ routeMarkets[i].orderbook # <<>>) =>
                   \A k \in 1..Len(route.markets) :
                       AsGood(FirstPriceOf(route.markets[k].marketId),
                              FirstPriceOf(routeMarkets[i].marketId), side)
        /\ \A k \in 1..Len(route.markets) :
               route.markets[k].amount =
                   Min(totalAmount - SumAmount(SubSeq(route.markets, 1, k - 1)),
                       LiquidityOf(route.markets[k].marketId))
        /\ \A k \in 1..(Len(route.markets) - 1) :
               route.markets[k].amount = LiquidityOf(route.markets[k].marketId)
        /\ SumAmount(route.markets) = totalAmount

\* the cheaper market comes second in the input, is allocated first and
\* whole, and the last allocated market is filled in part
C12_Witness ==
    /\ SufficientLiquidity
    /\ side = "buy"
    /\ route.kind = "ok"
    /\ Len(route.markets) >= 2
    /\ route.markets[1].marketId = "market2"
    /\ route.markets[Len(route.markets)].amount
           < LiquidityOf(route.markets[Len(route.markets)].marketId)

\* C13: for totalAmount > 0, findOptimalRoute fails with
\* InsufficientAggregateLiquidity exactly when the markets' total quantities
\* sum to less than totalAmount (so always on an empty market list); the
\* missing amount it reports is totalAmount minus that sum, and no Route is
\* returned.
C13_AggregateShortIffSumBelow ==
    (RouteDone /\ totalAmount > 0) =>
        /\ route.kind = "InsufficientAggregateLiquidity"
               <=> CombinedLiquidity(routeMarkets) < totalAmount
        /\ route.kind # "ok" =>
               route = [kind |-> "InsufficientAggregateLiquidity",
                        missing |-> totalAmount - CombinedLiquidity(routeMarkets)]

\* two markets with liquidity, together short of the amount
C13_Witness ==
    /\ RouteDone
    /\ Len(routeMarkets) >= 2
    /\ CombinedLiquidity(routeMarkets) > 0
    /\ LiquidityOf("market1") > 0
    /\ LiquidityOf("market2") > 0
    /\ route.kind = "InsufficientAggregateLiquidity"
    /\ route.missing > 0

\* cost of buying amount a in one market alone, best price first
BuyCost(book, a) ==
    IF a = 0 THEN 0 ELSE calculateSlippage(book, a, "buy").totalCost

\* least total cost of buying exactly remaining from the markets k.. of ms
RECURSIVE MinSplitCost(_, _, _)
MinSplitCost(ms, k, remaining) ==
    IF k > Len(ms) THEN 0
    ELSE LET book == ms[k].orderbook
             rest == CombinedLiquidity(SubSeq(ms, k + 1, Len(ms)))
             shares == {a \in 0..Min(remaining, TotalQuantity(book)) :
                           remaining - a <= rest}
             costs == {BuyCost(book, a) + MinSplitCost(ms, k + 1, remaining - a) :
                          a \in shares}
         IN  CHOOSE c \in costs : \A d \in costs : c <= d

\* C14 as stated: for a Buy, the total cost of the returned allocations is no
\* greater than the total cost of any other feasible split of totalAmount
\* across the given markets, each share filled best price first in its own
\* market.
C14_AsStated ==
    (RouteReturned /\ side = "buy" /\ totalAmount > 0) =>
        RatLeq(RouteCost(route.markets),
               RatOfInt(MinSplitCost(routeMarkets, 1, totalAmount)))

Permutations(n) ==
    {p \in [1..n -> 1..n] : \A a, b \in 1..n : a # b => p[a] # p[b]}

Reorderings(book) ==
    {[i \in 1..Len(book) |-> book[p[i]]] : p \in Permutations(Len(book))}

\* the market lists that differ from ms only in the order of the levels
\* inside the ladders
RECURSIVE LevelReorderings(_)
LevelReorderings(ms) ==
    IF ms = <<>> THEN {<<>>}
    ELSE {<<[marketId |-> Head(ms).marketId, orderbook |-> b]>> \o rest :
             b \in Reorderings(Head(ms).orderbook),
             rest \in LevelReorderings(Tail(ms))}

AllocationsOf(r) ==
    [k \in 1..Len(r.markets) |->
        <<r.markets[k].marketId, r.markets[k].amount, r.markets[k].price>>]

\* C15 as stated: permuting the levels inside any market's ladder leaves the
\* returned allocations (markets, order, amounts, prices) and the savings
\* unchanged.
C15_AsStated ==
    RouteReturned =>
        \A ms \in LevelReorderings(routeMarkets) :
            LET other == findOptimalRoute(totalAmount, side, ms)
            IN  /\ other.kind = "ok"
                /\ AllocationsOf(other) = AllocationsOf(route)
                /\ other.savings = route.savings

\* sum of amount * price over the allocations
RECURSIVE SumAmountTimesPrice(_)
SumAmountTimesPrice(as) ==
    IF as = <<>> THEN RatOfInt(0)
    ELSE RatAdd(RatMulInt(Head(as).price, Head(as).amount),
                SumAmountTimesPrice(Tail(as)))

\* sum of slippage * amount over the allocations
RECURSIVE SumSlippageTimesAmount(_)
SumSlippageTimesAmount(as) ==
    IF as = <<>> THEN RatOfInt(0)
    ELSE RatAdd(RatMulInt(Head(as).slippage, Head(as).amount),
                SumSlippageTimesAmount(Tail(as)))

\* each allocation's price and slippage are what calculateSlippage returns
\* for that market's ladder and that amount
AllocationsFromSlippage ==
    \A k \in 1..Len(route.markets) :
        LET a == route.markets[k]
            single == calculateSlippage(RouteMarketById(a.marketId).orderbook,
                                        a.amount, side)
        IN  /\ single.kind = "ok"
            /\ a.price = single.actualPrice
            /\ a.slippage = single.slippagePercent

\* C23 as stated: in every Route findOptimalRoute returns,
\* averagePrice * totalAmount equals the sum over the allocations of
\* amount * price, each allocation's price and slippagePercent are the
\* actualPrice and slippagePercent calculateSlippage returns for that
\* market's ladder and that amount, and totalSlippage is the amount-weighted
\* mean of the allocations' slippagePercent over totalAmount.
C23_AsStated ==
    RouteReturned =>
        /\ RatMulInt(route.averagePrice, route.totalAmount)
               = SumAmountTimesPrice(route.markets)
        /\ AllocationsFromSlippage
        /\ route.totalSlippage
               = RatDivInt(SumSlippageTimesAmount(route.markets), route.totalAmount)

\* C23: in every Route returned for a totalAmount other than 0 the three
\* relations hold; a Route returned for totalAmount = 0 has no allocations,
\* averagePrice 0 / 0 (not a number) and totalSlippage 0.
C23_RouteMetrics ==
    RouteReturned =>
        /\ route.totalAmount = totalAmount
        /\ AllocationsFromSlippage
        /\ totalAmount # 0 =>
               /\ RatMulInt(route.averagePrice, totalAmount)
                      = SumAmountTimesPrice(route.markets)
               /\ RatMulInt(route.totalSlippage, totalAmount)
                      = SumSlippageTimesAmount(route.markets)
        /\ totalAmount = 0 =>
               /\ route.markets = <<>>
               /\ route.averagePrice = [num |-> 0, den |-> 0]
               /\ route.totalSlippage = RatOfInt(0)

\* a route over two markets whose allocations slipped by different
\* percentages
C23_Witness ==
    /\ RouteReturned
    /\ Len(route.markets) = 2
    /\ route.markets[1].slippage # route.markets[2].slippage
    /\ route.markets[1].amount # route.markets[2].amount
    /\ route.averagePrice.den > 1

\* the first market in price order can fill the whole amount by itself
FirstMarketFillsAlone ==
    /\ Len(routeMarkets) > 0
    /\ totalAmount > 0
    /\ LET first == SortMarkets(MarketAnalysis(routeMarkets), side)[1]
       IN  TotalQuantity(first.orderbook) >= totalAmount

\* C26: in exact arithmetic every Route findOptimalRoute returns has
\* savings = 0: when the first market in price order can fill totalAmount
\* alone the allocation is that single market and costs what the benchmark
\* costs, otherwise the benchmark falls back to the route's own cost.
C26_SavingsAlwaysZero ==
    RouteReturned =>
        /\ route.savings = RatOfInt(0)
        /\ FirstMarketFillsAlone =>
               LET first == SortMarkets(MarketAnalysis(routeMarkets), side)[1]
                   single == calculateSlippage(first.orderbook, totalAmount, side)
               IN  /\ Len(route.markets) = 1
                   /\ route.markets[1].marketId = first.marketId
                   /\ route.markets[1].amount = totalAmount
                   /\ SumAmountTimesPrice(route.markets)
                          = RatOfInt(single.totalCost)
        /\ ~FirstMarketFillsAlone =>
               SingleMarketCost(SortMarkets(MarketAnalysis(routeMarkets), side),
                                totalAmount, side,
                                SumAmountTimesPrice(route.markets))
                   = SumAmountTimesPrice(route.markets)

\* the first market fills a buy alone across two of its levels while another
\* market could have filled it at a lower cost
C26_Witness ==
    /\ RouteReturned
    /\ FirstMarketFillsAlone
    /\ side = "buy"
    /\ Len(route.markets) = 1
    /\ RatLess(RatOfInt(0), route.markets[1].slippage)
    /\ \E i \in 1..Len(routeMarkets) :
           LET other == calculateSlippage(routeMarkets[i].orderbook,
                                          totalAmount, side)
           IN  /\ other.kind = "ok"
               /\ RatLess(RatOfInt(other.totalCost),
                          SumAmountTimesPrice(route.markets))
    /\ route.savings = RatOfInt(0)

\* C28: findOptimalRoute called with totalAmount <= 0 raises no error: the
\* allocation loop is not entered and a Route with no allocations and
\* savings 0 is returned, where calculateSlippage fails with InvalidOrderSize
\* for the same size.
C28_NonPositiveAmountReturnsEmptyRoute ==
    (RouteDone /\ totalAmount <= 0) =>
        /\ route.kind = "ok"
        /\ route.markets = <<>>
        /\ route.savings = RatOfInt(0)
        /\ route.totalAmount = totalAmount
        /\ \A i \in 1..Len(routeMarkets) :
               calculateSlippage(routeMarkets[i].orderbook, totalAmount, side).kind
                   = "InvalidOrderSize"

\* a negative amount over two markets that hold liquidity
C28_Witness ==
    /\ RouteDone
    /\ totalAmount < 0
    /\ Len(routeMarkets) = 2
    /\ \A i \in 1..2 : TotalQuantity(routeMarkets[i].orderbook) > 0
    /\ route.kind = "ok"
    /\ route.markets = <<>>

\* C30: in every Route returned for totalAmount > 0 each allocation has
\* 0 < amount <= the total quantity of its market's ladder, each input market
\* appears in at most one allocation, and a market whose ladder is empty
\* never appears, although its basePrice 0 sorts it first for a Buy: it is
\* skipped and the remaining amount stays what it was.
C30_AllocationsWithinLiquidity ==
    (RouteReturned /\ totalAmount > 0) =>
        /\ \A k \in 1..Len(route.markets) :
               /\ 0 < route.markets[k].amount
               /\ route.markets[k].amount <= LiquidityOf(route.markets[k].marketId)
        /\ \A i \in 1..Len(routeMarkets) :
               Cardinality({k \in 1..Len(route.markets) :
                               route.markets[k].marketId = routeMarkets[i].marketId})
                   <= (IF routeMarkets[i].orderbook = <<>> THEN 0 ELSE 1)
        /\ SumAmount(route.markets) = totalAmount

\* a buy over three markets: the one without levels sorts first and is
\* skipped, the two others share the amount
C30_Witness ==
    /\ RouteReturned
    /\ totalAmount > 0
    /\ side = "buy"
    /\ Len(routeMarkets) = 3
    /\ \E i \in 1..3 :
           /\ routeMarkets[i].orderbook = <<>>
           /\ SortMarkets(MarketAnalysis(routeMarkets), side)[1].marketId
                  = routeMarkets[i].marketId
    /\ Len(route.markets) = 2

-----------------------------------------------------------------------------
(* Properties of calculateScore *)

ScoreDone == pc = "done" /\ op = "calculateScore"

\* C16: calculateScore returns concentration = 1 whenever the combined bid
\* and ask levels are empty or their total quantity is 0, and spread = 100
\* whenever the bid side or the ask side is empty, whatever the other side.
C16_DegenerateBookSentinels ==
    ScoreDone =>
        /\ (TotalQuantity(bids) + TotalQuantity(asks) = 0) =>
               score.concentration = RatOfInt(1)
        /\ (bids = <<>> \/ asks = <<>>) => score.spread = RatOfInt(100)

\* one side empty, the other holding two levels of quantity 0
C16_Witness ==
    /\ ScoreDone
    /\ asks = <<>>
    /\ Len(bids) = 2
    /\ TotalQuantity(bids) = 0
    /\ score.spread = RatOfInt(100)
    /\ score.concentration = RatOfInt(1)

AllPositive(levels) ==
    \A i \in 1..Len(levels) : levels[i].price > 0 /\ levels[i].quantity > 0

\* C17 as stated: for bid and ask ladders of positive prices and quantities,
\* books whose best ask is below the best bid included, calculateScore
\* returns overall within [0, 100] and spread >= 0.
C17_AsStated ==
    (ScoreDone /\ AllPositive(bids) /\ AllPositive(asks)) =>
        /\ RatLeq(RatOfInt(0), score.overall)
        /\ RatLeq(score.overall, RatOfInt(100))
        /\ RatLeq(RatOfInt(0), score.spread)

-----------------------------------------------------------------------------
(* Properties of the callers' arrays *)

-----------------------------------------------------------------------------
(* Properties of LiquidityService *)

ArbitrageServiceDone == pc = "done" /\ op = "findArbitrageOpportunities"

\* the indices of the spot markets whose fetch succeeded and whose book has
\* a best bid and a best ask above 0, in input order
UsableIndices ==
    SelectSeq([i \in 1..Len(spotMarkets) |-> i],
              LAMBDA i : /\ fetchState[i] = "resolved"
                         /\ ParseFloat(TopPrice(spotMarkets[i].buys)) > 0
                         /\ ParseFloat(TopPrice(spotMarkets[i].sells)) > 0)

UsableMarkets ==
    [k \in 1..Len(UsableIndices) |->
        ArbitrageMarketData(spotMarkets[UsableIndices[k]])]

\* C24: in findArbitrageOpportunities the order-book fetches of all markets
\* are in flight together and settle in any order; a fetch that fails drops
\* only its market, and the call returns the opportunities computed from
\* exactly the markets whose fetch succeeded and whose bestBid and bestAsk
\* are both > 0, whatever the completion order and whichever fetches fail.
C24_FailedFetchDropsOnlyItsMarket ==
    /\ (pc = "fetching" /\ op = "findArbitrageOpportunities") =>
           /\ Len(fetchState) = Len(spotMarkets)
           /\ \A i \in 1..Len(fetchState) :
                  fetchState[i] = "inflight"
                      <=> ~(\E k \in 1..Len(completionOrder) :
                               completionOrder[k] = i)
    /\ ArbitrageServiceDone =>
           /\ \A i \in 1..Len(spotMarkets) :
                  Cardinality({k \in 1..Len(completionOrder) :
                                  completionOrder[k] = i}) = 1
           /\ response.kind = "ok"
           /\ response.opportunities
                  = findOpportunities(UsableMarkets, minSpreadPercent)
           /\ response.count = Len(response.opportunities)

\* three markets, the last fetch settles first, the second fails, and the
\* two others still give an opportunity
C24_Witness ==
    /\ ArbitrageServiceDone
    /\ fetchState = <<"resolved", "rejected", "resolved">>
    /\ completionOrder[1] = 3
    /\ response.count >= 1

BestRouteDone == pc = "done" /\ op = "findBestRoute"

\* the markets of the token whose fetch succeeded, as findOptimalRoute takes
\* them
FetchedForRoute ==
    LET kept == SelectSeq([i \in 1..Len(fetchedMarkets) |-> i],
                          LAMBDA i : fetchState[i] = "resolved")
    IN  [k \in 1..Len(kept) |-> RouteMarketData(fetchedMarkets[kept[k]], side)]

\* C25 as stated: in findBestRoute the failure of the order-book fetch of
\* one of the token's markets is tolerated: that market is dropped and the
\* route is computed from the markets whose fetch succeeded, the call does
\* not fail as a whole.
C25_AsStated ==
    (/\ BestRouteDone
     /\ \E i \in 1..Len(fetchState) : fetchState[i] = "rejected") =>
        LET r == findOptimalRoute(totalAmount, side, FetchedForRoute)
        IN  /\ r.kind = "ok" => response = r
            /\ r.kind # "ok" => response = [kind |-> "rejected", error |-> r]

====
